---- MODULE Spec2Model ----
(***************************************************************************)
(* Model of xla/service/gpu/runtime/conv.cc: the convolution custom call   *)
(* of the XLA GPU runtime.  A call builds (or fetches) the cached          *)
(* ConvRunner of its (stream executor, uid) key, optionally autotunes the  *)
(* algorithm at run time, sizes the scratch buffer and runs the            *)
(* convolution on the stream.                                              *)
(***************************************************************************)
EXTENDS Integers, Sequences, FiniteSets, TLC

VARIABLES
  runners,   \* ConvRunners::runners_ : executor -> (uid -> ConvRunner or NoRunner)
  thr,       \* per thread: the frame of the DoConv call it is executing
  cuda,      \* the GOOGLE_CUDA build flag
  calls,     \* number of custom calls started so far
  hist,      \* history per (executor, uid): what the external capabilities saw
  built      \* the last GetConvDescriptor application: its inputs and result

vars == <<runners, thr, cuda, calls, hist, built>>

-----------------------------------------------------------------------------
(* Bounds of the model.                                                    *)

\* custom calls started in one behaviour of Spec
MaxCalls == 2
\* length of the flat argument list of a graph call, and its n_aux_outputs
MaxArgs == 7
MaxAuxOutputs == 2

\* Two threads run custom calls; two stream executors and one uid give two
\* keys, (1, 1) and (2, 1).
Threads == {"t1", "t2"}
Executors == {1, 2}
Uids == {1}

\* backend_config.algorithm values the compiled program passes; -1 is the
\* "pick at run time" sentinel tested at conv.cc:372.
SentinelAlgorithm == -1
DefaultAlgorithm == 0
ExplicitAlgorithms == {3}
Algorithms == {SentinelAlgorithm} \cup ExplicitAlgorithms

\* backend_config.workspace_size values (negative: unset); the fixed-arity
\* calls modelled declare a workspace.
WorkspaceSizes == {-1, 2}
DeclaredWorkspaceSizes == {w \in WorkspaceSizes : w >= 0}
\* byte sizes of the scratch buffer the caller passes.
ScratchSizes == {1, 3}
\* the algorithms the picker may return; algorithm a needs a bytes of scratch.
BestAlgorithms == {1, 2}

\* std::optional / nullable values.
None == [has |-> FALSE]
Some(v) == [has |-> TRUE, value |-> v]

-----------------------------------------------------------------------------
(* Descriptor builder.                                                     *)

\* apply_layout: the memref's dimensions with the backend config's
\* minor-to-major order.
apply_layout(memref, minor_to_major) ==
  [element_type |-> memref.dtype,
   dimensions |-> memref.sizes,
   minor_to_major |-> minor_to_major]

\* algo->mutable_tuning_knobs()->insert({id, value}) for i = 0..n-1: insert
\* keeps the value of the first occurrence of an id.
TuningKnobs(knob_ids, knob_values) ==
  [id \in {knob_ids[i] : i \in 1..Len(knob_ids)} |->
     knob_values[CHOOSE i \in 1..Len(knob_ids) :
                   /\ knob_ids[i] = id
                   /\ \A j \in 1..(i - 1) : knob_ids[j] # id]]

\* One WindowDimension of the descriptor; index is 1-based here, the axis
\* numbers in dims are 0-based as in the code.
WindowDimension(operand0_shape, dims, w, index) ==
  LET kernel_dim == dims.kernel_spatial_dims[index]
  IN [size |-> operand0_shape.dimensions[kernel_dim + 1],
      stride |-> w.window_strides[index],
      padding_low |-> w.padding[index],
      padding_high |-> w.padding[index],
      base_dilation |-> w.lhs_dilation[index],
      window_dilation |-> w.rhs_dilation[index],
      window_reversal |-> w.window_reversal[index]]

\* descriptor.backend_config.algorithm
AlgorithmProto(b) ==
  [algo_id |-> b.algorithm,
   tensor_ops |-> b.tensor_ops_enabled,
   is_cudnn_frontend |-> b.is_cudnn_frontend,
   workspace_size |-> IF b.workspace_size >= 0 THEN Some(b.workspace_size) ELSE None,
   tuning_knobs |-> TuningKnobs(b.knob_ids, b.knob_values)]

\* Mutant: the descriptor is a static object, so window.add_dimensions()
\* appends to the dimensions the previous application left in it.
GetConvDescriptorStatic(kind, operand0, operand1, output, scratch, dims, w, b, attrs, fused, side_input, leakyrelu_alpha) ==
  LET operand0_shape == apply_layout(operand0, b.operand_0_layout)
  IN [kind |-> kind,
      operand0_shape |-> operand0_shape,
      operand1_shape |-> apply_layout(operand1, b.operand_1_layout),
      result_shape |-> apply_layout(output, b.result_layout),
      dnums |-> dims,
      window |-> (IF built.has THEN built.value.descriptor.window ELSE <<>>)
                   \o [index \in 1..Len(w.window_strides) |->
                         WindowDimension(operand0_shape, dims, w, index)],
      scratch_size |-> scratch.size_in_bytes,
      feature_group_count |-> attrs.feature_group_count,
      conv_result_scale |-> attrs.result_scale,
      reordered_int8_nchw_vect |-> b.is_cudnn_reordered_int8,
      algorithm |-> AlgorithmProto(b),
      activation_mode |-> fused,
      leakyrelu_alpha |-> leakyrelu_alpha,
      side_input_scale |-> side_input,
      serialized_graph |-> None]

\* GetConvDescriptor (conv.cc:236-331): every field of the descriptor, a
\* local object, is set from the parameters.
GetConvDescriptor(kind, operand0, operand1, output, scratch, dims, w, b, attrs, fused, side_input, leakyrelu_alpha) ==
  LET operand0_shape == apply_layout(operand0, b.operand_0_layout)
  IN [kind |-> kind,
      operand0_shape |-> operand0_shape,
      operand1_shape |-> apply_layout(operand1, b.operand_1_layout),
      result_shape |-> apply_layout(output, b.result_layout),
      dnums |-> dims,
      window |-> [index \in 1..Len(w.window_strides) |->
                    WindowDimension(operand0_shape, dims, w, index)],
      scratch_size |-> scratch.size_in_bytes,
      feature_group_count |-> attrs.feature_group_count,
      conv_result_scale |-> attrs.result_scale,
      reordered_int8_nchw_vect |-> b.is_cudnn_reordered_int8,
      algorithm |-> AlgorithmProto(b),
      activation_mode |-> fused,
      leakyrelu_alpha |-> leakyrelu_alpha,
      side_input_scale |-> side_input,
      serialized_graph |-> None]

-----------------------------------------------------------------------------
(* Attributes and arguments that do not vary between the calls modelled in *)
(* the dispatch state machine.                                             *)

DefaultOperand0 == [dtype |-> "f32", sizes |-> <<1, 2, 5, 7>>]
DefaultOperand1 == [dtype |-> "f32", sizes |-> <<4, 2, 3, 3>>]
DefaultOutput == [dtype |-> "f32", sizes |-> <<1, 4, 3, 5>>]
DefaultDims ==
  [input_batch_dim |-> 0, input_feature_dim |-> 1,
   input_spatial_dims |-> <<2, 3>>,
   kernel_in_feature_dim |-> 1, kernel_out_feature_dim |-> 0,
   kernel_spatial_dims |-> <<2, 3>>,
   output_batch_dim |-> 0, output_feature_dim |-> 1,
   output_spatial_dims |-> <<2, 3>>]
DefaultWindow ==
  [window_strides |-> <<1, 1>>, padding |-> <<0, 0>>,
   lhs_dilation |-> <<1, 1>>, rhs_dilation |-> <<1, 1>>,
   window_reversal |-> <<FALSE, FALSE>>]
DefaultAttrs == [feature_group_count |-> 1, result_scale |-> 1]

\* The memref arguments of a fixed-arity call, named by device address; the
\* arguments of a graph call have their position as address.
Operand0Arg == [type |-> "memref", data |-> 100, size_in_bytes |-> 0]
Operand1Arg == [type |-> "memref", data |-> 101, size_in_bytes |-> 0]
OutputArg == [type |-> "memref", data |-> 102, size_in_bytes |-> 0]
ScratchArg == [type |-> "memref", data |-> 103, size_in_bytes |-> 0]
\* the address of a buffer the allocator returns
AllocatedAddress == 200

\* The ConvBackendConfig attribute with the given algorithm and workspace size.
BackendConfig(algorithm, workspace_size) ==
  [algorithm |-> algorithm,
   tensor_ops_enabled |-> FALSE,
   is_cudnn_frontend |-> FALSE,
   is_cudnn_reordered_int8 |-> FALSE,
   knob_ids |-> <<>>, knob_values |-> <<>>,
   operand_0_layout |-> <<3, 2, 1, 0>>,
   operand_1_layout |-> <<3, 2, 1, 0>>,
   result_layout |-> <<3, 2, 1, 0>>,
   workspace_size |-> workspace_size]

\* run_options: the stream's parent executor and the device ordinal.
RunOptions == {[executor |-> e, device_ordinal |-> e - 1] : e \in Executors}

-----------------------------------------------------------------------------
(* Convolution runners caching.                                            *)

\* An empty StreamExecutorConvRunners: no ConvRunner for any uid.
EmptyRunners == [u \in Uids |-> None]

\* Mutant: the map is keyed by something that differs between calls (here the
\* executor together with the call number), so no two calls share an entry.
ConvRunnersCallPerCall(rs, executor) ==
  LET key == executor + Cardinality(Executors) * (calls + 1)
  IN [runners |-> [e \in DOMAIN rs \cup {key} |->
                     IF e \in DOMAIN rs THEN rs[e] ELSE EmptyRunners],
      slot |-> key]

\* Mutant: the executor is ignored, every call gets the same entry.
ConvRunnersCallShared(rs, executor) ==
  [runners |-> IF 1 \in DOMAIN rs THEN rs
               ELSE [e \in DOMAIN rs \cup {1} |->
                       IF e \in DOMAIN rs THEN rs[e] ELSE EmptyRunners],
   slot |-> 1]

\* ConvRunners::operator(): &runners_[executor], under mutex_; operator[]
\* default-constructs the entry of an executor seen for the first time.
\* slot names the entry the State<ConvRunner> of the call points into.
ConvRunnersCall(rs, executor) ==
  [runners |-> IF executor \in DOMAIN rs THEN rs
               ELSE [e \in DOMAIN rs \cup {executor} |->
                       IF e \in DOMAIN rs THEN rs[e] ELSE EmptyRunners],
   slot |-> executor]

\* GetGpuConvConfig(descriptor, ""): the GpuConvConfig of a descriptor; its
\* algorithm is the AlgorithmDesc made from descriptor.backend_config.
GetGpuConvConfig(descriptor) ==
  [algorithm |-> [algo_id |-> descriptor.algorithm.algo_id,
                  tensor_ops |-> descriptor.algorithm.tensor_ops,
                  workspace_size |-> descriptor.algorithm.workspace_size],
   kind |-> descriptor.kind,
   operand0_shape |-> descriptor.operand0_shape,
   operand1_shape |-> descriptor.operand1_shape,
   result_shape |-> descriptor.result_shape,
   window |-> descriptor.window,
   dnums |-> descriptor.dnums,
   feature_group_count |-> descriptor.feature_group_count,
   conv_result_scale |-> descriptor.conv_result_scale,
   serialized_graph |-> descriptor.serialized_graph]

\* State<ConvRunner>::GetOrCreate(create) on the sub-cache `sub`, atomic under
\* the state vector's mutex: the runner of uid if there is one, otherwise
\* create() is called and its value installed when it is ok.  `created` is
\* the StatusOr<ConvRunner> create() returns if it is called.
GetOrCreate(sub, uid, created) ==
  IF sub[uid].has
    THEN [sub |-> sub, ok |-> TRUE, called_create |-> FALSE]
    ELSE IF created.ok
      THEN [sub |-> [sub EXCEPT ![uid] = Some(created.value)],
            ok |-> TRUE, called_create |-> TRUE]
      ELSE [sub |-> sub, ok |-> FALSE, called_create |-> TRUE]

-----------------------------------------------------------------------------
(* DoConv.                                                                 *)

\* Mutant: every call is autotuned.
PinAlgorithmAlways(backend_config) ==
  [backend_config |-> [backend_config EXCEPT !.algorithm = DefaultAlgorithm],
   runtime_autotuning |-> TRUE]

\* Mutant: the sentinel is not replaced.
PinAlgorithmKeepsSentinel(backend_config) ==
  [backend_config |-> backend_config,
   runtime_autotuning |-> backend_config.algorithm = SentinelAlgorithm]

\* conv.cc:371-377: the sentinel is replaced by the default algorithm and
\* remembered as runtime_autotuning.
PinAlgorithm(backend_config) ==
  IF backend_config.algorithm = SentinelAlgorithm
    THEN [backend_config |->
            [backend_config EXCEPT !.algorithm = DefaultAlgorithm],
          runtime_autotuning |-> TRUE]
    ELSE [backend_config |-> backend_config, runtime_autotuning |-> FALSE]

\* The create lambda of conv.cc:382-397; config_ok is whether GetGpuConvConfig
\* accepts the descriptor.
CreateConvRunner(kind, scratch, backend_config, serialized_graph, config_ok) ==
  LET d0 == GetConvDescriptor(kind, DefaultOperand0, DefaultOperand1,
                              DefaultOutput, scratch, DefaultDims,
                              DefaultWindow, backend_config, DefaultAttrs,
                              None, None, None)
      descriptor == IF serialized_graph.has
                      THEN [d0 EXCEPT !.serialized_graph = serialized_graph]
                      ELSE d0
  IN IF config_ok
       THEN [ok |-> TRUE, value |-> [config |-> GetGpuConvConfig(descriptor)]]
       ELSE [ok |-> FALSE]

\* se::dnn::AlgorithmDesc algo_desc(algorithm, tensor_ops_enabled)
AlgorithmDesc(algo_id, tensor_ops) ==
  [algo_id |-> algo_id, tensor_ops |-> tensor_ops, workspace_size |-> None]

\* Mutant: the algorithm is set in the picker's copy, not in the runner.
SetAlgorithmOnCopy(conv, best_algo) == conv

\* conv.cc:431-434: conv->config.algorithm = algo_desc
SetAlgorithm(conv, best_algo) ==
  [conv EXCEPT !.value.config.algorithm =
     AlgorithmDesc(best_algo.algorithm, best_algo.tensor_ops_enabled)]

\* Mutant: >= for >.
NeedsReallocationAtLeast(scratch_buffer_size, scratch_buffer) ==
  scratch_buffer_size >= scratch_buffer.size

\* conv.cc:447
NeedsReallocation(scratch_buffer_size, scratch_buffer) ==
  scratch_buffer_size > scratch_buffer.size

\* conv.cc:453-454
NewScratchBuffer(scratch_buffer_size) ==
  [owner |-> "allocator", data |-> AllocatedAddress,
   size |-> scratch_buffer_size]

\* GetDeviceAddress(scratch), conv.cc:412
CallerScratchBuffer(scratch) ==
  [owner |-> "caller", data |-> scratch.data, size |-> scratch.size_in_bytes]

\* what the picker may return on success (AutotuneResult)
AutotuneResults ==
  {[algorithm |-> a, tensor_ops_enabled |-> TRUE, scratch_bytes |-> a] :
     a \in BestAlgorithms}

-----------------------------------------------------------------------------
(* The dispatch state machine: each thread executes custom calls, one      *)
(* DoConv frame at a time.                                                 *)

IdleFrame ==
  [pc |-> "idle", call |-> "none",
   run_options |-> [executor |-> 0, device_ordinal |-> 0],
   slot |-> 0, uid |-> 0,
   algorithm |-> 0,                 \* backend_config.algorithm as passed
   backend_config |-> BackendConfig(0, 0),
   runtime_autotuning |-> FALSE,
   args |-> <<>>, n_aux_outputs |-> 0,   \* of a graph call
   extra_operands |-> <<>>, outputs |-> <<>>,
   scratch |-> [type |-> "memref", data |-> 0, size_in_bytes |-> 0],
   scratch_buffer_size |-> 0,
   gpu_conv_config |-> None,
   best_algo |-> None,
   scratch_buffer |-> None,
   \* what this call did so far
   status |-> "none",
   create_calls |-> 0, search_calls |-> 0, alloc_calls |-> 0, run_calls |-> 0,
   searched_with |-> None, allocated |-> None, ran_with |-> None,
   \* what RunGpuConv returned and what stream()->ok() said after it
   primitive_ok |-> None, stream_ok |-> None]

\* algos: the backend_config.algorithm values passed at the key; builds and
\* build_errors: runs of the create lambda that returned a runner / an error;
\* searches: calls of the picker; tunes: overwrites of the runner's algorithm;
\* ok_calls: custom calls that returned OkStatus.
EmptyHistory ==
  [algos |-> {}, builds |-> 0, build_errors |-> 0, searches |-> 0,
   tunes |-> 0, ok_calls |-> 0]

\* the ConvRunner slot of a key, None when there is no runner (yet)
RunnerAt(rs, executor, uid) ==
  IF executor \in DOMAIN rs THEN rs[executor][uid] ELSE None

Init ==
  /\ runners = [e \in {} |-> EmptyRunners]
  /\ thr = [t \in Threads |-> IdleFrame]
  /\ cuda \in BOOLEAN
  /\ calls = 0
  /\ hist = [e \in Executors |-> [u \in Uids |-> EmptyHistory]]
  /\ built = None

\* The frame DoConv starts with (conv.cc:361-377).
EnterDoConv(call, run_options, slot, uid, backend_config, extra_operands, outputs, scratch) ==
  LET pinned == PinAlgorithm(backend_config)
  IN [IdleFrame EXCEPT
        !.pc = "get_or_create", !.call = call,
        !.run_options = run_options, !.slot = slot, !.uid = uid,
        !.algorithm = backend_config.algorithm,
        !.backend_config = pinned.backend_config,
        !.runtime_autotuning = pinned.runtime_autotuning,
        !.extra_operands = extra_operands, !.outputs = outputs,
        !.scratch = scratch,
        !.status = "running"]

\* xla.gpu.conv.*: the runtime binds State<ConvRunner> from ConvRunners and
\* the uid attribute, and ConvImpl forwards to DoConv (conv.cc:476-505).
ConvImpl(t) ==
  /\ thr[t].pc = "idle"
  /\ calls < MaxCalls
  /\ \E run_options \in RunOptions, uid \in Uids, algorithm \in Algorithms,
        workspace_size \in DeclaredWorkspaceSizes,
        size_in_bytes \in ScratchSizes :
       LET r == ConvRunnersCall(runners, run_options.executor)
           e == run_options.executor
       IN /\ runners' = r.runners
          /\ thr' = [thr EXCEPT ![t] =
               EnterDoConv("conv", run_options, r.slot, uid,
                           BackendConfig(algorithm, workspace_size),
                           <<>>, <<OutputArg>>,
                           [ScratchArg EXCEPT !.size_in_bytes = size_in_bytes])]
          /\ hist' = [hist EXCEPT ![e][uid].algos = @ \cup {algorithm}]
  /\ calls' = calls + 1
  /\ UNCHANGED <<cuda, built>>

\* Mutant: the error of GetOrCreate is noted but DoConv goes on.
AfterGetOrCreateGoesOn(f, got) ==
  [f EXCEPT !.create_calls = IF got.called_create THEN @ + 1 ELSE @,
            !.status = IF got.ok THEN @ ELSE "build_error",
            !.pc = IF f.runtime_autotuning THEN "autotune" ELSE "scratch",
            !.scratch_buffer_size = CallerScratchBuffer(f.scratch).size]

\* Mutant: the scratch buffer is sized right after GetOrCreate, without
\* waiting for the search of a call that asked for one.
AfterGetOrCreateSizesFirst(f, got) ==
  LET f1 == [f EXCEPT !.create_calls = IF got.called_create THEN @ + 1 ELSE @]
  IN IF ~got.ok
       THEN [f1 EXCEPT !.pc = "done", !.status = "build_error"]
       ELSE [f1 EXCEPT
               !.pc = "scratch",
               !.scratch_buffer_size = CallerScratchBuffer(f.scratch).size]

\* Mutant: a failed GetOrCreate is tried once more.
AfterGetOrCreateRetries(f, got) ==
  LET f1 == [f EXCEPT !.create_calls = IF got.called_create THEN @ + 1 ELSE @]
  IN IF ~got.ok
       THEN IF f1.create_calls < 2
              THEN f1
              ELSE [f1 EXCEPT !.pc = "done", !.status = "build_error"]
       ELSE [f1 EXCEPT
               !.pc = IF f.runtime_autotuning THEN "autotune" ELSE "scratch",
               !.scratch_buffer_size = CallerScratchBuffer(f.scratch).size]

\* The frame after runner.GetOrCreate returned `got` (conv.cc:379-414): an
\* error is returned to the caller; otherwise the buffers are prepared and
\* scratch_buffer_size starts as the size of the caller's scratch buffer.
AfterGetOrCreate(f, got) ==
  LET f1 == [f EXCEPT !.create_calls = IF got.called_create THEN @ + 1 ELSE @]
  IN IF ~got.ok
       THEN [f1 EXCEPT !.pc = "done", !.status = "build_error"]
       ELSE [f1 EXCEPT
               !.pc = IF f.runtime_autotuning THEN "autotune" ELSE "scratch",
               !.scratch_buffer_size = CallerScratchBuffer(f.scratch).size]

\* Mutant: the create lambda runs in every call and its runner replaces the
\* one installed.
DoConvGetOrCreateRebuilds(t) ==
  /\ thr[t].pc = "get_or_create"
  /\ \E config_ok \in BOOLEAN :
       LET f == thr[t]
           e == f.run_options.executor
           created == CreateConvRunner(
                        "forward", f.scratch, f.backend_config, None, config_ok)
           got == GetOrCreate([runners[f.slot] EXCEPT ![f.uid] = None],
                              f.uid, created)
       IN /\ runners' = [runners EXCEPT ![f.slot] =
                           IF got.ok THEN got.sub ELSE runners[f.slot]]
          /\ thr' = [thr EXCEPT ![t] = AfterGetOrCreate(f, got)]
          /\ hist' = [hist EXCEPT
               ![e][f.uid].builds = IF got.ok THEN @ + 1 ELSE @,
               ![e][f.uid].build_errors = IF ~got.ok THEN @ + 1 ELSE @]
  /\ UNCHANGED <<cuda, calls, built>>

\* conv.cc:379-414: runner.GetOrCreate with the create lambda, then the
\* buffers.  A runner that is already installed is fetched; create() is
\* then not called, so its result is not drawn.
DoConvGetOrCreate(t) ==
  /\ thr[t].pc = "get_or_create"
  /\ \E config_ok \in BOOLEAN :
       LET f == thr[t]
           e == f.run_options.executor
           created == CreateConvRunner(
                        "forward", f.scratch, f.backend_config, None, config_ok)
           got == GetOrCreate(runners[f.slot], f.uid, created)
       IN /\ (~got.called_create => config_ok)
          /\ runners' = [runners EXCEPT ![f.slot] = got.sub]
          /\ thr' = [thr EXCEPT ![t] = AfterGetOrCreate(f, got)]
          /\ hist' = [hist EXCEPT
               ![e][f.uid].builds =
                  IF got.called_create /\ got.ok THEN @ + 1 ELSE @,
               ![e][f.uid].build_errors =
                  IF got.called_create /\ ~got.ok THEN @ + 1 ELSE @]
  /\ UNCHANGED <<cuda, calls, built>>

\* Mutant: without CUDA the search is skipped and the call goes on with the
\* pinned default algorithm.
DoConvAutotuneFallsBack(t) ==
  /\ thr[t].pc = "autotune"
  /\ LET f == thr[t]
     IN thr' = [thr EXCEPT ![t] =
          IF ~cuda
            THEN [f EXCEPT !.pc = "scratch"]
            ELSE [f EXCEPT !.pc = "pick",
                           !.gpu_conv_config =
                              Some(runners[f.slot][f.uid].value.config)]]
  /\ UNCHANGED <<runners, cuda, calls, hist, built>>

\* conv.cc:417-424 and 438-441: without CUDA the call fails; with CUDA the
\* picker gets a copy of the runner's config.
DoConvAutotune(t) ==
  /\ thr[t].pc = "autotune"
  /\ LET f == thr[t]
     IN thr' = [thr EXCEPT ![t] =
          IF ~cuda
            THEN [f EXCEPT !.pc = "done", !.status = "no_cuda"]
            ELSE [f EXCEPT !.pc = "pick",
                           !.gpu_conv_config =
                              Some(runners[f.slot][f.uid].value.config)]]
  /\ UNCHANGED <<runners, cuda, calls, hist, built>>

\* The frame after a successful pick (conv.cc:431-437).
AfterPick(f, best_algo) ==
  [f EXCEPT !.pc = "scratch",
            !.best_algo = Some(best_algo),
            !.scratch_buffer_size = best_algo.scratch_bytes]

\* Mutant: a failed search is noted but the call goes on with the runner as
\* it is.
DoConvPickGoesOn(t) ==
  /\ thr[t].pc = "pick"
  /\ LET f == thr[t]
         e == f.run_options.executor
         f1 == [f EXCEPT !.search_calls = @ + 1,
                         !.searched_with = f.gpu_conv_config]
     IN \/ /\ thr' = [thr EXCEPT ![t] =
                [f1 EXCEPT !.pc = "scratch", !.status = "autotune_error"]]
           /\ hist' = [hist EXCEPT ![e][f.uid].searches = @ + 1]
           /\ UNCHANGED runners
        \/ \E best_algo \in AutotuneResults :
             /\ runners' = [runners EXCEPT ![f.slot][f.uid] =
                              SetAlgorithm(@, best_algo)]
             /\ thr' = [thr EXCEPT ![t] = AfterPick(f1, best_algo)]
             /\ hist' = [hist EXCEPT ![e][f.uid].searches = @ + 1,
                                     ![e][f.uid].tunes = @ + 1]
  /\ UNCHANGED <<cuda, calls, built>>

\* conv.cc:425-437: PickBestAlgorithmWithAllocatedBuffer; on success the
\* runner's algorithm is overwritten.
DoConvPick(t) ==
  /\ thr[t].pc = "pick"
  /\ LET f == thr[t]
         e == f.run_options.executor
         f1 == [f EXCEPT !.search_calls = @ + 1,
                         !.searched_with = f.gpu_conv_config]
     IN \/ /\ thr' = [thr EXCEPT ![t] =
                [f1 EXCEPT !.pc = "done", !.status = "autotune_error"]]
           /\ hist' = [hist EXCEPT ![e][f.uid].searches = @ + 1]
           /\ UNCHANGED runners
        \/ \E best_algo \in AutotuneResults :
             /\ runners' = [runners EXCEPT ![f.slot][f.uid] =
                              SetAlgorithm(@, best_algo)]
             /\ thr' = [thr EXCEPT ![t] = AfterPick(f1, best_algo)]
             /\ hist' = [hist EXCEPT ![e][f.uid].searches = @ + 1,
                                     ![e][f.uid].tunes = @ + 1]
  /\ UNCHANGED <<cuda, calls, built>>

\* Mutant: when the allocator fails the call goes on with the caller's
\* scratch buffer.
DoConvScratchFallsBack(t) ==
  /\ thr[t].pc = "scratch"
  /\ LET f == thr[t]
         scratch_buffer == CallerScratchBuffer(f.scratch)
     IN IF NeedsReallocation(f.scratch_buffer_size, scratch_buffer)
          THEN LET f1 == [f EXCEPT
                     !.alloc_calls = @ + 1,
                     !.allocated = Some(
                        [device_ordinal |-> f.run_options.device_ordinal,
                         size |-> f.scratch_buffer_size])]
               IN \/ thr' = [thr EXCEPT ![t] =
                       [f1 EXCEPT !.pc = "run",
                                  !.scratch_buffer = Some(scratch_buffer)]]
                  \/ thr' = [thr EXCEPT ![t] =
                       [f1 EXCEPT !.pc = "run",
                                  !.scratch_buffer =
                                     Some(NewScratchBuffer(f.scratch_buffer_size))]]
          ELSE thr' = [thr EXCEPT ![t] =
                 [f EXCEPT !.pc = "run",
                           !.scratch_buffer = Some(scratch_buffer)]]
  /\ UNCHANGED <<runners, cuda, calls, hist, built>>

\* conv.cc:444-454: the scratch buffer the convolution will run with.
DoConvScratch(t) ==
  /\ thr[t].pc = "scratch"
  /\ LET f == thr[t]
         scratch_buffer == CallerScratchBuffer(f.scratch)
     IN IF NeedsReallocation(f.scratch_buffer_size, scratch_buffer)
          THEN LET f1 == [f EXCEPT
                     !.alloc_calls = @ + 1,
                     !.allocated = Some(
                        [device_ordinal |-> f.run_options.device_ordinal,
                         size |-> f.scratch_buffer_size])]
               IN \/ thr' = [thr EXCEPT ![t] =
                       [f1 EXCEPT !.pc = "done", !.status = "alloc_error"]]
                  \/ thr' = [thr EXCEPT ![t] =
                       [f1 EXCEPT !.pc = "run",
                                  !.scratch_buffer =
                                     Some(NewScratchBuffer(f.scratch_buffer_size))]]
          ELSE thr' = [thr EXCEPT ![t] =
                 [f EXCEPT !.pc = "run",
                           !.scratch_buffer = Some(scratch_buffer)]]
  /\ UNCHANGED <<runners, cuda, calls, hist, built>>

\* conv.cc:399-411: the device addresses of the operands (operand0, operand1,
\* then the extra operands; bias and side input are absent in the calls
\* modelled) and of the outputs.
OperandBuffers(f) ==
  <<Operand0Arg.data, Operand1Arg.data>>
    \o [i \in 1..Len(f.extra_operands) |-> f.extra_operands[i].data]

ResultBuffers(f) == [i \in 1..Len(f.outputs) |-> f.outputs[i].data]

\* The arguments RunGpuConv gets (conv.cc:457-459, 467-468).
RunGpuConvArgs(conv, buffers, result_buffers, scratch_buffer) ==
  [algorithm |-> conv.value.config.algorithm,
   buffers |-> buffers, result_buffers |-> result_buffers,
   scratch |-> scratch_buffer]

\* Mutant: the stream is not looked at.
RunStatusIgnoresStream(run_ok, stream_ok) ==
  IF ~run_ok THEN "run_error" ELSE "ok"

\* The status DoConv returns after RunGpuConv, on the path with the new
\* scratch buffer (conv.cc:457-464) and on the path with the caller's
\* (conv.cc:467-473).
RunStatus(run_ok, stream_ok) ==
  IF ~run_ok THEN "run_error"
  ELSE IF ~stream_ok THEN "stream_error"
  ELSE "ok"

\* Mutant: when the run or the stream check fails, the algorithm the search
\* of the call selected is taken back out of the runner.
DoConvRunRollsBack(t) ==
  /\ thr[t].pc = "run"
  /\ \E run_ok \in BOOLEAN, stream_ok \in BOOLEAN :
       LET f == thr[t]
           e == f.run_options.executor
           status == RunStatus(run_ok, stream_ok)
       IN /\ thr' = [thr EXCEPT ![t] =
               [f EXCEPT !.pc = "done", !.status = status,
                         !.run_calls = @ + 1,
                         !.primitive_ok = Some(run_ok),
                         !.stream_ok = IF run_ok THEN Some(stream_ok)
                                                 ELSE None,
                         !.ran_with = Some(RunGpuConvArgs(
                            runners[f.slot][f.uid], OperandBuffers(f),
                            ResultBuffers(f), f.scratch_buffer.value))]]
          /\ hist' = [hist EXCEPT ![e][f.uid].ok_calls =
                        IF status = "ok" THEN @ + 1 ELSE @]
          /\ runners' = IF status # "ok" /\ f.best_algo.has
                          THEN [runners EXCEPT
                                  ![f.slot][f.uid].value.config.algorithm =
                                     AlgorithmDesc(DefaultAlgorithm, FALSE)]
                          ELSE runners
  /\ UNCHANGED <<cuda, calls, built>>

\* conv.cc:456-473: run the convolution, then check the stream.
DoConvRun(t) ==
  /\ thr[t].pc = "run"
  /\ \E run_ok \in BOOLEAN, stream_ok \in BOOLEAN :
       LET f == thr[t]
           e == f.run_options.executor
           status == RunStatus(run_ok, stream_ok)
       IN /\ thr' = [thr EXCEPT ![t] =
               [f EXCEPT !.pc = "done", !.status = status,
                         !.run_calls = @ + 1,
                         !.primitive_ok = Some(run_ok),
                         !.stream_ok = IF run_ok THEN Some(stream_ok)
                                                 ELSE None,
                         !.ran_with = Some(RunGpuConvArgs(
                            runners[f.slot][f.uid], OperandBuffers(f),
                            ResultBuffers(f), f.scratch_buffer.value))]]
          /\ hist' = [hist EXCEPT ![e][f.uid].ok_calls =
                        IF status = "ok" THEN @ + 1 ELSE @]
  /\ UNCHANGED <<runners, cuda, calls, built>>

\* Mutant: a call that failed after GetOrCreate takes the runner of its key
\* out of the cache when it returns.
ReturnEvictsOnFailure(t) ==
  /\ thr[t].pc = "done"
  /\ thr' = [thr EXCEPT ![t] = IdleFrame]
  /\ runners' =
       IF thr[t].status \in {"no_cuda", "autotune_error", "alloc_error",
                             "run_error", "stream_error"}
         THEN [runners EXCEPT ![thr[t].slot][thr[t].uid] = None]
         ELSE runners
  /\ UNCHANGED <<cuda, calls, hist, built>>

\* The custom call returns its status to the compiled program.
Return(t) ==
  /\ thr[t].pc = "done"
  /\ thr' = [thr EXCEPT ![t] = IdleFrame]
  /\ UNCHANGED <<runners, cuda, calls, hist, built>>

-----------------------------------------------------------------------------
(* ConvGraphImpl: the graph-fusion call, whose operands, outputs and       *)
(* scratch are recovered from the flat argument list.                      *)

\* args.get<T>(i) for a memref view type T: the argument at index i (from 0)
\* when there is one and it is a memref, a failure otherwise.
ArgsGet(args, i) ==
  IF i >= 0 /\ i < Len(args) /\ args[i + 1].type = "memref"
    THEN Some(args[i + 1])
    ELSE None

\* Mutant: <= for <.
UnsignedLessEq(i, bound) == IF bound < 0 THEN TRUE ELSE i <= bound

\* `i < bound` as the code evaluates it with bound of type size_t: a
\* mathematically negative bound has wrapped to a value above every index.
UnsignedLess(i, bound) == IF bound < 0 THEN TRUE ELSE i < bound

\* conv.cc:531-539, from index i on, with the operands collected so far.
RECURSIVE ExtraOperandsLoop(_, _, _, _)
ExtraOperandsLoop(args, n_aux_outputs, i, extra_operands) ==
  IF UnsignedLess(i, Len(args) - n_aux_outputs - 2)
    THEN LET arg == ArgsGet(args, i)
         IN IF ~arg.has
              THEN [failed |-> TRUE]
              ELSE ExtraOperandsLoop(args, n_aux_outputs, i + 1,
                                     Append(extra_operands, arg.value))
    ELSE [failed |-> FALSE, value |-> extra_operands]

\* conv.cc:541-549, from index i on, with the outputs collected so far.
RECURSIVE OutputsLoop(_, _, _)
OutputsLoop(args, i, outputs) ==
  IF UnsignedLess(i, Len(args) - 1)
    THEN LET arg == ArgsGet(args, i)
         IN IF ~arg.has
              THEN [failed |-> TRUE]
              ELSE OutputsLoop(args, i + 1, Append(outputs, arg.value))
    ELSE [failed |-> FALSE, value |-> outputs]

\* conv.cc:531-555: the binding of a graph call, or the group whose buffer
\* could not be got.
ConvGraphBind(args, n_aux_outputs) ==
  LET extra_operands == ExtraOperandsLoop(args, n_aux_outputs, 0, <<>>)
  IN IF extra_operands.failed
       THEN [ok |-> FALSE, error |-> "operand"]
       ELSE
         LET outputs ==
               OutputsLoop(args, Len(args) - n_aux_outputs - 2, <<>>)
         IN IF outputs.failed
              THEN [ok |-> FALSE, error |-> "output"]
              ELSE
                LET scratch == ArgsGet(args, Len(args) - 1)
                IN IF ~scratch.has
                     THEN [ok |-> FALSE, error |-> "scratch"]
                     ELSE [ok |-> TRUE,
                           extra_operands |-> extra_operands.value,
                           outputs |-> outputs.value,
                           scratch |-> scratch.value]

\* The flat argument lists of the graph calls modelled: n arguments at
\* addresses 0..n-1, all memrefs but at most one, the last one with the
\* scratch size.
GraphArgs(n, bad, size_in_bytes) ==
  [i \in 1..n |->
     [type |-> IF i = bad THEN "other" ELSE "memref",
      data |-> i - 1,
      size_in_bytes |-> IF i = n THEN size_in_bytes ELSE 0]]

\* Mutant: a failed binding is not returned; DoConv is entered with what could
\* be bound.
EnterConvGraphGoesOn(f, run_options, slot, uid, backend_config, args, n_aux_outputs) ==
  LET bound == ConvGraphBind(args, n_aux_outputs)
  IN [EnterDoConv("graph", run_options, slot, uid, backend_config,
                  IF bound.ok THEN bound.extra_operands ELSE <<>>,
                  IF bound.ok THEN bound.outputs ELSE <<>>,
                  IF bound.ok THEN bound.scratch ELSE IdleFrame.scratch)
        EXCEPT !.args = args, !.n_aux_outputs = n_aux_outputs]

\* The frame ConvGraphImpl ends with: the error of a failed binding, or the
\* frame DoConv starts with (conv.cc:531-564).
EnterConvGraph(f, run_options, slot, uid, backend_config, args, n_aux_outputs) ==
  LET bound == ConvGraphBind(args, n_aux_outputs)
      f1 == [f EXCEPT !.call = "graph", !.run_options = run_options,
                      !.slot = slot, !.uid = uid,
                      !.algorithm = backend_config.algorithm,
                      !.args = args, !.n_aux_outputs = n_aux_outputs]
  IN IF ~bound.ok
       THEN [f1 EXCEPT !.pc = "done",
                       !.status = "bind_error_" \o bound.error]
       ELSE [EnterDoConv("graph", run_options, slot, uid, backend_config,
                         bound.extra_operands, bound.outputs, bound.scratch)
               EXCEPT !.args = args, !.n_aux_outputs = n_aux_outputs]

\* xla.gpu.conv.forward.graph (conv.cc:507-564, 648-660).
ConvGraphImpl(t) ==
  /\ thr[t].pc = "idle"
  /\ calls = 0
  /\ \E run_options \in RunOptions, uid \in Uids, algorithm \in Algorithms,
        workspace_size \in WorkspaceSizes, size_in_bytes \in ScratchSizes,
        n \in 0..MaxArgs, n_aux_outputs \in 0..MaxAuxOutputs :
       \E bad \in 0..n :
         LET r == ConvRunnersCall(runners, run_options.executor)
             e == run_options.executor
         IN /\ runners' = r.runners
            /\ thr' = [thr EXCEPT ![t] =
                 EnterConvGraph(thr[t], run_options, r.slot, uid,
                                BackendConfig(algorithm, workspace_size),
                                GraphArgs(n, bad, size_in_bytes),
                                n_aux_outputs)]
            /\ hist' = [hist EXCEPT ![e][uid].algos = @ \cup {algorithm}]
  /\ calls' = calls + 1
  /\ UNCHANGED <<cuda, built>>

Next ==
  \E t \in Threads :
    \/ ConvImpl(t)
    \/ DoConvGetOrCreate(t)
    \/ DoConvAutotune(t)
    \/ DoConvPick(t)
    \/ DoConvScratch(t)
    \/ DoConvRun(t)
    \/ Return(t)

Spec == Init /\ [][Next]_vars

\* One graph-fusion custom call.  The uid of a graph convolution names no
\* other custom call, so its calls share no runner with the calls of Spec.
NextGraph ==
  \E t \in Threads :
    \/ ConvGraphImpl(t)
    \/ DoConvGetOrCreate(t)
    \/ DoConvAutotune(t)
    \/ DoConvPick(t)
    \/ DoConvScratch(t)
    \/ DoConvRun(t)
    \/ Return(t)

SpecGraph == Init /\ [][NextGraph]_vars

-----------------------------------------------------------------------------
(* The descriptor builder on its own: GetConvDescriptor applied to inputs  *)
(* that vary in the operands, the dimension numbers, the window and the    *)
(* backend config.                                                         *)

\* the input and kernel operands of the applications modelled
Operand0s ==
  {[dtype |-> "f32", sizes |-> z] : z \in {<<1, 2, 5, 7>>, <<1, 2, 4, 6>>}}
Operand1s ==
  {[dtype |-> "f32", sizes |-> z] : z \in {<<4, 2, 3, 3>>, <<4, 2, 1, 2>>}}
\* the dimension numbers: the kernel spatial axes in either order
DimensionNumbers ==
  {[DefaultDims EXCEPT !.kernel_spatial_dims = k] : k \in {<<2, 3>>, <<3, 2>>}}
Windows ==
  {[DefaultWindow EXCEPT !.window_strides = z] : z \in {<<1, 1>>, <<2, 1>>}}
\* the backend configs DoConv passes to the builder (the sentinel is pinned)
PinnedBackendConfigs ==
  {PinAlgorithm(BackendConfig(a, w)).backend_config :
     a \in Algorithms, w \in WorkspaceSizes}

\* the inputs of an application of GetConvDescriptor
DescriptorInputs ==
  {"kind", "operand0", "operand1", "output", "scratch", "dims", "w", "b",
   "attrs", "fused", "side_input", "leakyrelu_alpha"}

\* One application of GetConvDescriptor, as the create lambda makes it
\* (conv.cc:383-388), recorded with its inputs.  `first` is the first
\* application of the behaviour, `between` whether an application with
\* other inputs than the first has been made since.
BuildDescriptor ==
  /\ \E operand0 \in Operand0s, operand1 \in Operand1s,
        dims \in DimensionNumbers, w \in Windows,
        b \in PinnedBackendConfigs :
       LET kind == "forward"
           scratch == ScratchArg
           application ==
             [kind |-> kind, operand0 |-> operand0, operand1 |-> operand1,
              output |-> DefaultOutput, scratch |-> scratch,
              dims |-> dims, w |-> w, b |-> b, attrs |-> DefaultAttrs,
              fused |-> None, side_input |-> None, leakyrelu_alpha |-> None,
              descriptor |->
                GetConvDescriptor(kind, operand0, operand1, DefaultOutput,
                                  scratch, dims, w, b, DefaultAttrs,
                                  None, None, None)]
           first == IF built.has THEN built.value.first ELSE application
           same == \A k \in DescriptorInputs : application[k] = first[k]
       IN built' = Some(
            [k \in DOMAIN application \cup {"first", "between"} |->
               IF k = "first" THEN first
               ELSE IF k = "between"
                 THEN built.has /\ (built.value.between \/ ~same)
               ELSE application[k]])
  /\ UNCHANGED <<runners, thr, cuda, calls, hist>>

NextDescriptor == BuildDescriptor

SpecDescriptor == Init /\ [][NextDescriptor]_vars

-----------------------------------------------------------------------------
(* Properties.                                                             *)

Keys == Executors \X Uids

\* the frame of thread t belongs to a call in progress at key <<e, u>>
AtKey(t, e, u) ==
  /\ thr[t].pc # "idle"
  /\ thr[t].run_options.executor = e
  /\ thr[t].uid = u

\* thread t takes the step from pc `from` in this transition
Steps(t, from) == thr[t].pc = from /\ thr'[t] # thr[t]

\* the state of a call site: UNBUILT, BUILT or TUNED
SiteState(rs, h, e, u) ==
  IF ~RunnerAt(rs, e, u).has THEN "UNBUILT"
  ELSE IF h[e][u].tunes = 0 THEN "BUILT"
  ELSE "TUNED"

\* C1: at a key whose calls all carry the sentinel algorithm, two or more
\* successful calls invoke the algorithm search exactly once in total.
C1_SearchOncePerCallSite ==
  \A e \in Executors, u \in Uids :
    (hist[e][u].algos = {SentinelAlgorithm} /\ hist[e][u].ok_calls >= 2)
      => hist[e][u].searches = 1

\* C2: at most one successful runner construction per key, over every
\* interleaving; a GetOrCreate that finds a runner installed does not call
\* the builder, leaves the runner as it is and succeeds.
C2_OneConstructionPerKey ==
  [][ /\ \A e \in Executors, u \in Uids : hist'[e][u].builds <= 1
      /\ \A t \in Threads :
           (Steps(t, "get_or_create")
              /\ RunnerAt(runners, thr[t].run_options.executor, thr[t].uid).has)
           => /\ thr'[t].create_calls = 0
              /\ thr'[t].status = "running"
              /\ RunnerAt(runners', thr[t].run_options.executor, thr[t].uid)
                   = RunnerAt(runners, thr[t].run_options.executor, thr[t].uid)
    ]_vars

\* two calls at one key are past GetOrCreate; one built the runner, the other
\* fetched it
C2_Witness ==
  \E t1, t2 \in Threads, e \in Executors, u \in Uids :
    /\ t1 # t2 /\ AtKey(t1, e, u) /\ AtKey(t2, e, u)
    /\ thr[t1].pc \in {"autotune", "scratch"} /\ thr[t1].create_calls = 1
    /\ thr[t2].pc \in {"autotune", "scratch"} /\ thr[t2].create_calls = 0
    /\ hist[e][u].builds = 1

\* C3: when the builder fails no runner is installed for the key, the call
\* returns the error without search, allocation or execution, and a
\* GetOrCreate that finds no runner runs the builder (again).
C3_FailedBuildInstallsNothing ==
  [][ \A t \in Threads :
        /\ (Steps(t, "get_or_create") /\ thr'[t].status = "build_error")
             => /\ ~RunnerAt(runners', thr[t].run_options.executor, thr[t].uid).has
                /\ SiteState(runners', hist', thr[t].run_options.executor,
                             thr[t].uid) = "UNBUILT"
        /\ thr'[t].status = "build_error"
             => /\ thr'[t].pc = "done"
                /\ thr'[t].search_calls = 0
                /\ thr'[t].alloc_calls = 0
                /\ thr'[t].run_calls = 0
        /\ (Steps(t, "get_or_create")
              /\ ~RunnerAt(runners, thr[t].run_options.executor, thr[t].uid).has)
             => thr'[t].create_calls = 1
    ]_vars

\* a build failed at the key and a later build at the same key succeeded
C3_Witness ==
  \E e \in Executors, u \in Uids :
    /\ hist[e][u].build_errors >= 1
    /\ hist[e][u].builds = 1
    /\ RunnerAt(runners, e, u).has
    /\ \A t \in Threads : thr[t].pc = "idle"

\* C4: a step changes the runner of a key only when it is a step of a call
\* running in that key's execution context.
C4_ContextsIndependent ==
  [][ \A e \in Executors, u \in Uids :
        RunnerAt(runners', e, u) # RunnerAt(runners, e, u)
          => \E t \in Threads :
               /\ thr'[t] # thr[t]
               /\ thr[t].run_options.executor = e
    ]_vars

\* the same uid has a tuned runner in one context and an untuned one in another
C4_Witness ==
  \E e1, e2 \in Executors, u \in Uids :
    /\ e1 # e2
    /\ SiteState(runners, hist, e1, u) = "TUNED"
    /\ SiteState(runners, hist, e2, u) = "BUILT"
    /\ runners[e1][u].value.config.algorithm
         # runners[e2][u].value.config.algorithm

\* C5: a call with an explicit algorithm never invokes the search; when no
\* call at its key carried the sentinel, the primitive runs with the
\* runner's algorithm, which is the explicit algorithm passed.
C5_ExplicitNeverSearches ==
  \A t \in Threads :
    (thr[t].pc # "idle" /\ thr[t].algorithm # SentinelAlgorithm)
      => /\ thr[t].search_calls = 0
         /\ ~thr[t].searched_with.has
         /\ ~thr[t].best_algo.has
         /\ hist[thr[t].run_options.executor][thr[t].uid].algos
              = {thr[t].algorithm}
              => /\ hist[thr[t].run_options.executor][thr[t].uid].searches = 0
                 /\ thr[t].ran_with.has
                      => /\ thr[t].ran_with.value.algorithm.algo_id
                              = thr[t].algorithm
                         /\ thr[t].ran_with.value.algorithm =
                              RunnerAt(runners, thr[t].run_options.executor,
                                       thr[t].uid).value.config.algorithm

\* a call with an explicit algorithm ran the primitive and returned ok
C5_Witness ==
  \E t \in Threads :
    /\ thr[t].pc = "done" /\ thr[t].status = "ok"
    /\ thr[t].algorithm \in ExplicitAlgorithms
    /\ thr[t].ran_with.has
    /\ thr[t].ran_with.value.algorithm.algo_id = thr[t].algorithm

\* C6: in the first call of a sentinel call site (the call that builds the
\* runner), when build and search succeed, the call site goes from UNBUILT
\* through BUILT to TUNED, the runner's algorithm is the selected one before
\* the primitive runs, and the primitive of that call runs with the selected
\* algorithm and with scratch sized from the picker's scratch_bytes.
C6_FirstSentinelCallTunes ==
  \A t \in Threads :
    (/\ thr[t].algorithm = SentinelAlgorithm
     /\ thr[t].create_calls = 1
     /\ thr[t].best_algo.has)
      => /\ SiteState(runners, hist, thr[t].run_options.executor, thr[t].uid)
              = "TUNED"
         /\ thr[t].pc = "scratch"
              => thr[t].scratch_buffer_size
                   = thr[t].best_algo.value.scratch_bytes
         /\ thr[t].ran_with.has
              => /\ thr[t].ran_with.value.algorithm.algo_id
                      = thr[t].best_algo.value.algorithm
                 /\ thr[t].ran_with.value.scratch.size
                      >= thr[t].best_algo.value.scratch_bytes

\* C6 without a concurrent search: a successful pick overwrites the runner's
\* algorithm with the selected one before the primitive of that call runs
\* and makes the call site TUNED; the primitive of that call then runs with a
\* scratch buffer sized from the picker's scratch_bytes and, when no other
\* call has searched at the key, with the selected algorithm.
TunesWhenNoOtherCallSearches ==
  [][ \A t \in Threads :
        LET e == thr[t].run_options.executor
            u == thr[t].uid
        IN /\ (Steps(t, "get_or_create") /\ thr'[t].create_calls = 1
                 /\ thr'[t].status = "running")
                => /\ SiteState(runners, hist, e, u) = "UNBUILT"
                   /\ SiteState(runners', hist', e, u) = "BUILT"
           /\ (Steps(t, "pick") /\ thr'[t].best_algo.has)
                => /\ SiteState(runners, hist, e, u) \in {"BUILT", "TUNED"}
                   /\ SiteState(runners', hist', e, u) = "TUNED"
                   /\ runners'[e][u].value.config.algorithm.algo_id
                        = thr'[t].best_algo.value.algorithm
                   /\ thr'[t].scratch_buffer_size
                        = thr'[t].best_algo.value.scratch_bytes
                   /\ thr'[t].run_calls = 0
           /\ (Steps(t, "run") /\ thr[t].best_algo.has)
                => /\ thr'[t].ran_with.value.scratch.size
                        >= thr[t].best_algo.value.scratch_bytes
                   /\ thr'[t].allocated.has
                        => thr'[t].ran_with.value.scratch.size
                             = thr[t].best_algo.value.scratch_bytes
                   /\ hist[e][u].searches = 1
                        => thr'[t].ran_with.value.algorithm.algo_id
                             = thr[t].best_algo.value.algorithm
    ]_vars

\* C7: no runner, no configuration given to the picker and no configuration
\* given to the primitive ever carries the sentinel algorithm.
C7_SentinelNeverReachesBackend ==
  /\ \A e \in Executors, u \in Uids :
       RunnerAt(runners, e, u).has
         => runners[e][u].value.config.algorithm.algo_id # SentinelAlgorithm
  /\ \A t \in Threads :
       /\ thr[t].backend_config.algorithm # SentinelAlgorithm
       /\ thr[t].gpu_conv_config.has
            => thr[t].gpu_conv_config.value.algorithm.algo_id
                 # SentinelAlgorithm
       /\ thr[t].searched_with.has
            => thr[t].searched_with.value.algorithm.algo_id # SentinelAlgorithm
       /\ thr[t].ran_with.has
            => thr[t].ran_with.value.algorithm.algo_id # SentinelAlgorithm

\* a call that passed the sentinel gave the picker the default algorithm
C7_Witness ==
  \E t \in Threads :
    /\ thr[t].algorithm = SentinelAlgorithm
    /\ thr[t].create_calls = 1
    /\ thr[t].searched_with.has
    /\ thr[t].searched_with.value.algorithm.algo_id = DefaultAlgorithm

\* C8: in an autotuned call with picker requirement S and caller scratch of
\* size s0: if S > s0 the allocator is asked once for S bytes on the call's
\* device ordinal and the primitive gets that buffer; if S <= s0 the
\* allocator is not called and the primitive gets the caller's buffer.
C8_ScratchGrowth ==
  \A t \in Threads :
    (thr[t].best_algo.has /\ thr[t].pc \in {"run", "done"})
      => LET S == thr[t].best_algo.value.scratch_bytes
             s0 == thr[t].scratch.size_in_bytes
         IN /\ S > s0
                 => /\ thr[t].alloc_calls = 1
                    /\ thr[t].allocated =
                         Some([device_ordinal |->
                                 thr[t].run_options.device_ordinal,
                               size |-> S])
                    /\ thr[t].ran_with.has
                         => thr[t].ran_with.value.scratch
                              = [owner |-> "allocator",
                                 data |-> AllocatedAddress, size |-> S]
            /\ S <= s0
                 => /\ thr[t].alloc_calls = 0
                    /\ ~thr[t].allocated.has
                    /\ thr[t].ran_with.has
                         => thr[t].ran_with.value.scratch
                              = [owner |-> "caller",
                                 data |-> thr[t].scratch.data, size |-> s0]

\* one autotuned call ran with a newly allocated buffer, another with the
\* caller's
C8_Witness ==
  \E t1, t2 \in Threads :
    /\ thr[t1].best_algo.has /\ thr[t1].ran_with.has
    /\ thr[t1].best_algo.value.scratch_bytes > thr[t1].scratch.size_in_bytes
    /\ thr[t1].ran_with.value.scratch.owner = "allocator"
    /\ thr[t2].best_algo.has /\ thr[t2].ran_with.has
    /\ thr[t2].best_algo.value.scratch_bytes <= thr[t2].scratch.size_in_bytes
    /\ thr[t2].ran_with.value.scratch.owner = "caller"

\* C9: a call with an explicit algorithm whose declared workspace size W
\* exceeds the caller's scratch buffer runs the primitive with a fresh
\* allocation of W bytes, not with the caller's buffer.
C9_ExplicitWorkspaceGrowth ==
  \A t \in Threads :
    (/\ thr[t].pc # "idle"
     /\ thr[t].algorithm # SentinelAlgorithm
     /\ thr[t].backend_config.workspace_size > thr[t].scratch.size_in_bytes
     /\ thr[t].ran_with.has)
      => /\ thr[t].allocated.has
         /\ thr[t].allocated.value.size = thr[t].backend_config.workspace_size
         /\ thr[t].ran_with.value.scratch.owner # "caller"

\* the arguments of the graph call of thread t are all memrefs
WellTyped(t) == \A i \in 1..Len(thr[t].args) : thr[t].args[i].type = "memref"

\* C10: a graph call with N well-typed arguments and A auxiliary outputs,
\* N >= A + 2, binds arguments 0..N-A-3 as extra operands, N-A-2..N-2 as
\* outputs (main result first) and N-1 as scratch, each argument to exactly
\* one group, and the primitive gets the buffers of that binding.
C10_GraphArgumentSlicing ==
  \A t \in Threads :
    LET N == Len(thr[t].args)
        A == thr[t].n_aux_outputs
    IN (thr[t].call = "graph" /\ WellTyped(t) /\ A >= 0 /\ N >= A + 2)
         => /\ thr[t].status \notin
                 {"bind_error_operand", "bind_error_output",
                  "bind_error_scratch"}
            /\ Len(thr[t].extra_operands) = N - A - 2
            /\ \A i \in 0..(N - A - 3) :
                 thr[t].extra_operands[i + 1] = thr[t].args[i + 1]
            /\ Len(thr[t].outputs) = A + 1
            /\ \A i \in (N - A - 2)..(N - 2) :
                 thr[t].outputs[i - (N - A - 2) + 1] = thr[t].args[i + 1]
            /\ thr[t].scratch = thr[t].args[N]
            /\ thr[t].extra_operands \o thr[t].outputs \o <<thr[t].scratch>>
                 = thr[t].args
            /\ thr[t].ran_with.has
                 => /\ thr[t].ran_with.value.buffers
                         = <<Operand0Arg.data, Operand1Arg.data>>
                             \o [i \in 1..(N - A - 2) |-> i - 1]
                    /\ thr[t].ran_with.value.result_buffers
                         = [i \in 1..(A + 1) |-> N - A - 2 + i - 1]
                    /\ (~thr[t].allocated.has)
                         => thr[t].ran_with.value.scratch.data = N - 1

\* the call of the example: 7 arguments, 2 auxiliary outputs, bound as 3
\* extra operands, 3 outputs and the scratch, and run
C10_Witness ==
  \E t \in Threads :
    /\ thr[t].call = "graph" /\ WellTyped(t)
    /\ Len(thr[t].args) = 7 /\ thr[t].n_aux_outputs = 2
    /\ Len(thr[t].extra_operands) = 3 /\ Len(thr[t].outputs) = 3
    /\ thr[t].scratch.data = 6
    /\ thr[t].pc = "done" /\ thr[t].status = "ok"
    /\ thr[t].ran_with.value.result_buffers = <<3, 4, 5>>

\* the statuses of a failed binding, one per group
BindErrors ==
  {"bind_error_operand", "bind_error_output", "bind_error_scratch"}

C12_StreamHealthChecked ==
  \A t \in Threads :
    thr[t].run_calls = 1
      => /\ thr[t].pc = "done"
         /\ thr[t].ran_with.value.scratch.owner \in {"caller", "allocator"}
         /\ thr[t].primitive_ok.has
         /\ thr[t].primitive_ok.value => thr[t].stream_ok.has
         /\ thr[t].status = "ok"
              <=> (thr[t].primitive_ok.value /\ thr[t].stream_ok.value)
         /\ (thr[t].primitive_ok.value /\ ~thr[t].stream_ok.value)
              => thr[t].status = "stream_error"
         /\ ~thr[t].primitive_ok.value => thr[t].status = "run_error"

\* on each path a call whose primitive succeeded failed on the stream check
C12_Witness ==
  \E t1, t2 \in Threads :
    /\ thr[t1].run_calls = 1 /\ thr[t2].run_calls = 1
    /\ thr[t1].ran_with.value.scratch.owner = "caller"
    /\ thr[t2].ran_with.value.scratch.owner = "allocator"
    /\ \A t \in {t1, t2} :
         /\ thr[t].primitive_ok = Some(TRUE)
         /\ thr[t].stream_ok = Some(FALSE)
         /\ thr[t].status = "stream_error"

\* C13: in a build without the search capability every call that passes the
\* sentinel algorithm returns an error, the first call at a key and every
\* later one, and never invokes the primitive (so never with the pinned
\* default algorithm); nothing is searched or allocated either.
C13_SearchUnavailable ==
  ~cuda =>
    \A t \in Threads :
      (thr[t].pc # "idle" /\ thr[t].algorithm = SentinelAlgorithm)
        => /\ thr[t].run_calls = 0
           /\ ~thr[t].ran_with.has
           /\ thr[t].search_calls = 0
           /\ thr[t].alloc_calls = 0
           /\ thr[t].pc \in {"get_or_create", "autotune", "done"}
           /\ thr[t].pc = "done"
                => thr[t].status \in {"build_error", "no_cuda"}
           /\ (thr[t].pc = "done" /\ thr[t].create_calls = 0)
                => thr[t].status = "no_cuda"

\* without the search capability, a later sentinel call at a key whose
\* runner an earlier sentinel call built has failed as the first one did
C13_Witness ==
  \E t \in Threads :
    LET e == thr[t].run_options.executor
        u == thr[t].uid
    IN /\ ~cuda
       /\ thr[t].pc = "done" /\ thr[t].algorithm = SentinelAlgorithm
       /\ thr[t].create_calls = 0 /\ thr[t].status = "no_cuda"
       /\ hist[e][u].algos = {SentinelAlgorithm}
       /\ hist[e][u].builds = 1
       /\ runners[e][u].value.config.algorithm.algo_id = DefaultAlgorithm
       /\ hist[e][u].ok_calls = 0

\* C14: when the scratch buffer must grow and the allocator fails, the call
\* returns that failure and does not invoke the primitive: a call that asked
\* the allocator either got the new buffer and runs with it, or ends with the
\* allocation error and no primitive call.
C14_AllocationFailure ==
  \A t \in Threads :
    /\ thr[t].status = "alloc_error"
         => /\ thr[t].pc = "done"
            /\ thr[t].alloc_calls = 1
            /\ ~thr[t].scratch_buffer.has
            /\ thr[t].run_calls = 0
            /\ ~thr[t].ran_with.has
    /\ (thr[t].allocated.has /\ thr[t].pc \in {"run", "done"})
         => IF thr[t].scratch_buffer.has
              THEN /\ thr[t].scratch_buffer.value.owner = "allocator"
                   /\ thr[t].ran_with.has
                        => thr[t].ran_with.value.scratch.owner = "allocator"
              ELSE /\ thr[t].status = "alloc_error"
                   /\ thr[t].run_calls = 0

\* an autotuned call needed more scratch than the caller gave, the allocator
\* failed and the call ended without running the primitive
C14_Witness ==
  \E t \in Threads :
    /\ thr[t].pc = "done" /\ thr[t].status = "alloc_error"
    /\ thr[t].best_algo.has
    /\ thr[t].best_algo.value.scratch_bytes > thr[t].scratch.size_in_bytes
    /\ thr[t].allocated.has
    /\ thr[t].run_calls = 0

\* C15: when the search runs and fails, the call returns that failure, and
\* neither the allocator nor the primitive is called in that call.
C15_SearchFailure ==
  \A t \in Threads :
    /\ thr[t].status = "autotune_error"
         => /\ thr[t].pc = "done"
            /\ thr[t].search_calls = 1
            /\ ~thr[t].best_algo.has
            /\ thr[t].alloc_calls = 0
            /\ ~thr[t].allocated.has
            /\ thr[t].run_calls = 0
            /\ ~thr[t].ran_with.has
    /\ (thr[t].search_calls = 1 /\ ~thr[t].best_algo.has)
         => /\ thr[t].status = "autotune_error"
            /\ thr[t].pc = "done"

\* the search of a sentinel call failed; the call ended with that error, and
\* the runner still has the pinned default algorithm
C15_Witness ==
  \E t \in Threads :
    LET e == thr[t].run_options.executor
        u == thr[t].uid
    IN /\ thr[t].pc = "done" /\ thr[t].status = "autotune_error"
       /\ thr[t].algorithm = SentinelAlgorithm
       /\ thr[t].search_calls = 1 /\ thr[t].run_calls = 0
       /\ hist[e][u].searches = 1 /\ hist[e][u].tunes = 0
       /\ runners[e][u].value.config.algorithm.algo_id = DefaultAlgorithm

\* C16: TUNED is terminal.  Once the runner of a key holds an algorithm
\* selected by autotuning, the call site stays TUNED, and a call that found
\* the runner tuned (the configuration it copied for the picker carries a
\* selected algorithm) does not change the runner's algorithm.
C16_TunedIsTerminal ==
  [][ \A e \in Executors, u \in Uids :
        SiteState(runners, hist, e, u) = "TUNED"
          => /\ SiteState(runners', hist', e, u) = "TUNED"
             /\ \A t \in Threads :
                  (/\ AtKey(t, e, u)
                   /\ Steps(t, "pick")
                   /\ thr[t].gpu_conv_config.value.algorithm.algo_id
                        \in BestAlgorithms)
                    => runners'[e][u].value.config.algorithm
                         = runners[e][u].value.config.algorithm
    ]_vars

\* C17: when two threads concurrently make the first two calls of a
\* sentinel call site, the search runs and the runner's algorithm is
\* overwritten at most once between them.
C17_ConcurrentTuneOnce ==
  \A t1, t2 \in Threads, e \in Executors, u \in Uids :
    (/\ t1 # t2 /\ calls = 2
     /\ AtKey(t1, e, u) /\ AtKey(t2, e, u)
     /\ thr[t1].algorithm = SentinelAlgorithm
     /\ thr[t2].algorithm = SentinelAlgorithm)
      => /\ hist[e][u].searches <= 1
         /\ hist[e][u].tunes <= 1
         /\ thr[t1].search_calls + thr[t2].search_calls <= 1

\* C18: in the built descriptor the size of window dimension i is the extent
\* of the kernel operand, operand1, at the axis kernel_spatial_dims[i].
C18_WindowSizeFromKernel ==
  built.has
    => \A i \in 1..Len(built.value.descriptor.window) :
         built.value.descriptor.window[i].size
           = built.value.operand1.sizes[
               built.value.dims.kernel_spatial_dims[i] + 1]

\* the fields of a runner's configuration that autotuning does not write
FixedConfigFields ==
  {"kind", "operand0_shape", "operand1_shape", "result_shape", "window",
   "dnums", "feature_group_count", "conv_result_scale", "serialized_graph"}

\* C19: once a runner is installed for a key it stays installed, no step
\* changes a field of its configuration other than the algorithm, and the
\* algorithm changes only by the write of a successful search of a call at
\* that key; a call that passes other attributes or another scratch buffer
\* than the building call changes nothing else.
C19_DescriptorImmutable ==
  [][ \A e \in Executors, u \in Uids :
        RunnerAt(runners, e, u).has
          => /\ RunnerAt(runners', e, u).has
             /\ \A field \in FixedConfigFields :
                  runners'[e][u].value.config[field]
                    = runners[e][u].value.config[field]
             /\ DOMAIN runners'[e][u].value.config
                  = FixedConfigFields \cup {"algorithm"}
             /\ runners'[e][u].value.config.algorithm
                  # runners[e][u].value.config.algorithm
                  => \E t \in Threads :
                       /\ AtKey(t, e, u) /\ Steps(t, "pick")
                       /\ thr'[t].best_algo.has
                       /\ runners'[e][u].value.config.algorithm
                            = AlgorithmDesc(
                                thr'[t].best_algo.value.algorithm,
                                thr'[t].best_algo.value.tensor_ops_enabled)
    ]_vars

\* a call with an explicit algorithm and a 3-byte scratch buffer fetched the
\* runner a sentinel call built, and ran with that runner's configuration:
\* the pinned default algorithm and the declared workspace of the first call
C19_Witness ==
  \E t \in Threads :
    LET e == thr[t].run_options.executor
        u == thr[t].uid
    IN /\ thr[t].pc = "done" /\ thr[t].status = "ok"
       /\ thr[t].algorithm \in ExplicitAlgorithms
       /\ thr[t].scratch.size_in_bytes = 3
       /\ thr[t].create_calls = 0
       /\ hist[e][u].algos = {SentinelAlgorithm} \cup ExplicitAlgorithms
       /\ hist[e][u].builds = 1
       /\ runners[e][u].value.config.algorithm.algo_id = DefaultAlgorithm
       /\ runners[e][u].value.config.algorithm.workspace_size.has
       /\ thr[t].ran_with.value.algorithm
            = runners[e][u].value.config.algorithm

\* the statuses of a failed call
Failures ==
  {"build_error", "no_cuda", "autotune_error", "alloc_error", "run_error",
   "stream_error"} \cup BindErrors

\* C20: no retries.  In one call the builder, the search, the allocator and
\* the primitive are each invoked at most once; a step that fails ends the
\* call, and a failed call takes no step but the return of its status.
C20_NoRetries ==
  [][ \A t \in Threads :
        /\ thr'[t].create_calls <= 1
        /\ thr'[t].search_calls <= 1
        /\ thr'[t].alloc_calls <= 1
        /\ thr'[t].run_calls <= 1
        /\ thr'[t].status \in Failures => thr'[t].pc = "done"
        /\ (thr[t].status \in Failures /\ thr'[t] # thr[t])
             => thr'[t] = IdleFrame
        /\ (Steps(t, "get_or_create") /\ thr'[t].create_calls = 1
              /\ ~RunnerAt(runners', thr[t].run_options.executor,
                           thr[t].uid).has)
             => thr'[t].status = "build_error"
    ]_vars

\* one call failed in the builder, which it called once; another searched,
\* allocated and ran once each and failed in the primitive
C20_Witness ==
  \E t1, t2 \in Threads :
    /\ thr[t1].pc = "done" /\ thr[t1].status = "build_error"
    /\ thr[t1].create_calls = 1
    /\ thr[t2].pc = "done" /\ thr[t2].status = "run_error"
    /\ thr[t2].create_calls = 1 /\ thr[t2].search_calls = 1
    /\ thr[t2].alloc_calls = 1 /\ thr[t2].run_calls = 1

Searches(t) == thr'[t].search_calls > thr[t].search_calls
Allocates(t) == thr'[t].alloc_calls > thr[t].alloc_calls
Runs(t) == thr'[t].run_calls > thr[t].run_calls

\* C22: in every call the steps come in the order build-or-fetch, search
\* (only when the sentinel was passed), scratch sizing and allocation,
\* primitive, stream check.  The search runs only when the key has a runner
\* this call got; the scratch buffer is sized and allocated only after the
\* search of the call has returned; the primitive runs only with the scratch
\* buffer of the call decided; the stream is looked at only after the
\* primitive.
C22_StepOrder ==
  [][ \A t \in Threads :
        LET e == thr[t].run_options.executor
            u == thr[t].uid
            fetched == thr[t].pc \notin {"idle", "get_or_create"}
            searched == thr[t].search_calls = 1 /\ thr[t].best_algo.has
        IN /\ (thr'[t].pc \in {"autotune", "pick", "scratch", "run"}
                 /\ thr'[t] # thr[t])
                => RunnerAt(runners', e, u).has
           /\ Searches(t)
                => /\ fetched /\ RunnerAt(runners, e, u).has
                   /\ thr[t].algorithm = SentinelAlgorithm
                   /\ thr[t].alloc_calls = 0 /\ thr[t].run_calls = 0
                   /\ ~thr[t].scratch_buffer.has
           /\ (Steps(t, "scratch") \/ Allocates(t))
                => /\ fetched
                   /\ thr[t].algorithm = SentinelAlgorithm => searched
                   /\ thr[t].algorithm # SentinelAlgorithm
                        => thr[t].search_calls = 0
                   /\ thr[t].run_calls = 0
           /\ Runs(t)
                => /\ fetched
                   /\ thr[t].algorithm = SentinelAlgorithm => searched
                   /\ thr[t].scratch_buffer.has
                   /\ thr'[t].ran_with.value.scratch
                        = thr[t].scratch_buffer.value
                   /\ ~thr[t].stream_ok.has
           /\ thr'[t].stream_ok.has
                => /\ thr'[t].run_calls = 1
                   /\ thr'[t].primitive_ok = Some(TRUE)
    ]_vars

\* a sentinel call went through every step: it built the runner, searched,
\* allocated, ran the primitive and found the stream ok
C22_Witness ==
  \E t \in Threads :
    /\ thr[t].pc = "done" /\ thr[t].status = "ok"
    /\ thr[t].algorithm = SentinelAlgorithm
    /\ thr[t].create_calls = 1 /\ thr[t].search_calls = 1
    /\ thr[t].alloc_calls = 1 /\ thr[t].run_calls = 1
    /\ thr[t].stream_ok = Some(TRUE)

\* the scratch requirement the search reports for algorithm a
ScratchRequirement(a) ==
  (CHOOSE r \in AutotuneResults : r.algorithm = a).scratch_bytes

\* C23: at a key whose calls all pass the sentinel, under every
\* interleaving, the scratch buffer the primitive gets is at least as large
\* as the requirement the search reported for the algorithm the runner holds
\* when the primitive is invoked.
C23_ScratchCoversPlanAlgorithm ==
  \A t \in Threads :
    (/\ thr[t].ran_with.has
     /\ hist[thr[t].run_options.executor][thr[t].uid].algos
          = {SentinelAlgorithm}
     /\ thr[t].ran_with.value.algorithm.algo_id \in BestAlgorithms)
      => thr[t].ran_with.value.scratch.size
           >= ScratchRequirement(thr[t].ran_with.value.algorithm.algo_id)

\* C24: the runner's algorithm is written only by a call whose search
\* returned successfully, and then with the algorithm selected.  A call
\* whose search fails or is unavailable leaves it unchanged, and so does
\* every step after a successful search: the write is kept when the call
\* then fails in the allocation, the primitive or the stream check.
C24_AlgorithmWrittenBySuccessfulSearch ==
  [][ \A e \in Executors, u \in Uids :
        RunnerAt(runners, e, u).has
          => /\ RunnerAt(runners', e, u).has
             /\ runners'[e][u].value.config.algorithm
                  # runners[e][u].value.config.algorithm
                  => \E t \in Threads :
                       /\ AtKey(t, e, u) /\ Searches(t)
                       /\ thr'[t].best_algo.has
                       /\ thr'[t].status = "running"
             /\ \A t \in Threads :
                  /\ (AtKey(t, e, u) /\ Searches(t) /\ thr'[t].best_algo.has)
                       => runners'[e][u].value.config.algorithm
                            = AlgorithmDesc(
                                thr'[t].best_algo.value.algorithm,
                                thr'[t].best_algo.value.tensor_ops_enabled)
                  /\ (AtKey(t, e, u) /\ thr'[t] # thr[t]
                        /\ thr'[t].status \in Failures)
                       => runners'[e][u] = runners[e][u]
    ]_vars

\* a call's search selected an algorithm, the call then failed in the stream
\* check, and the runner still holds the selected algorithm; no other call
\* searched at the key
C24_Witness ==
  \E t \in Threads :
    LET e == thr[t].run_options.executor
        u == thr[t].uid
    IN /\ thr[t].pc = "done" /\ thr[t].status = "stream_error"
       /\ thr[t].best_algo.has
       /\ hist[e][u].searches = 1
       /\ runners[e][u].value.config.algorithm.algo_id
            = thr[t].best_algo.value.algorithm

\* C25: once the builder has succeeded for a key the runner stays
\* installed, whatever the outcome of the later steps of that call or of any
\* later call (search failed or unavailable, allocation, primitive or stream
\* check failed), and no call at that key invokes the builder again.
C25_PlanStaysInstalled ==
  [][ \A e \in Executors, u \in Uids :
        hist[e][u].builds >= 1
          => /\ RunnerAt(runners, e, u).has
             /\ RunnerAt(runners', e, u).has
             /\ hist'[e][u].builds = 1
             /\ hist'[e][u].build_errors = hist[e][u].build_errors
             /\ \A t \in Threads :
                  (AtKey(t, e, u) /\ thr'[t].pc # "idle")
                    => thr'[t].create_calls = thr[t].create_calls
    ]_vars

\* the call that built the runner failed after the build and has returned;
\* a later call at the key fetched the runner without building and ended ok
C25_Witness ==
  \E t \in Threads :
    LET e == thr[t].run_options.executor
        u == thr[t].uid
    IN /\ calls = 2
       /\ \A t2 \in Threads \ {t} : thr[t2].pc = "idle"
       /\ thr[t].pc = "done" /\ thr[t].status = "ok"
       /\ thr[t].create_calls = 0
       /\ hist[e][u].builds = 1 /\ hist[e][u].build_errors = 0
       /\ hist[e][u].ok_calls = 1
       /\ RunnerAt(runners, e, u).has

====
